---- MODULE Spec2Model ----
(***************************************************************************)
(* The task registry of main.go: the global task list, the id counter and  *)
(* the mutex guarding them, and the HTTP handlers addTask, getTaskStatus,  *)
(* getOperations, getTaskForExecution and handleResult, each run by one of *)
(* a fixed set of request goroutines.                                      *)
(***************************************************************************)
EXTENDS Integers, Sequences, FiniteSets, TLC

\* ----------------------------------------------------------------- bounds

\* The longest task list explored: addTask is not called on a full list.
MaxTasks == 2
\* The last instant of the wall clock explored (the clock starts at 1).
MaxTime == 2

\* The request goroutines net/http runs the handlers on.
Procs == {"h1", "h2"}

\* ------------------------------------------------------------ HTTP status

StatusOK == 200
StatusNoContent == 204
StatusBadRequest == 400
StatusNotFound == 404

\* --------------------------------------------------------------- JSON text
\* A JSON value: a number, a string, a timestamp string (RFC 3339, written
\* here as the instant it denotes), an object, an array, or text that is not
\* JSON at all.

EmptyFields == [k \in {} |-> 0]

JNum(n) == [t |-> "num", n |-> n, s |-> "", f |-> EmptyFields, a |-> <<>>]

JStr(s) == [t |-> "str", n |-> 0, s |-> s, f |-> EmptyFields, a |-> <<>>]

JTime(n) == [t |-> "time", n |-> n, s |-> "", f |-> EmptyFields, a |-> <<>>]

JObj(f) == [t |-> "obj", n |-> 0, s |-> "", f |-> f, a |-> <<>>]

JArr(a) == [t |-> "arr", n |-> 0, s |-> "", f |-> EmptyFields, a |-> a]

JInvalid == [t |-> "invalid", n |-> 0, s |-> "", f |-> EmptyFields, a |-> <<>>]

\* No response body (and the body of a request that carries none).
NoBody == [t |-> "none", n |-> 0, s |-> "", f |-> EmptyFields, a |-> <<>>]

\* A time.Time as JSON text can be read as a time, a JSON string
\* cannot be read as a number, and so on: the JSON type a Go field accepts.
HasField(j, name, type) == name \in DOMAIN j.f /\ j.f[name].t = type

BadField(j, name, type) == name \in DOMAIN j.f /\ j.f[name].t # type

\* ------------------------------------------------------------------ types

\* The zero Task, what `var task Task` holds before decoding.
ZeroTask == [ID |-> 0, Expression |-> "", Status |-> "", Result |-> 0, StartTime |-> 0]

ZeroTaskRequest == [Expression |-> ""]

\* A catalog in which every operator costs 2.
OperationsCatalog_FlatCost ==
  << [Operator |-> "+", Duration |-> 2], [Operator |-> "-", Duration |-> 2],
     [Operator |-> "*", Duration |-> 2], [Operator |-> "/", Duration |-> 2] >>

\* operations, the catalog main.go is started with.
OperationsCatalog ==
  << [Operator |-> "+", Duration |-> 2], [Operator |-> "-", Duration |-> 2],
     [Operator |-> "*", Duration |-> 4], [Operator |-> "/", Duration |-> 4] >>

\* ------------------------------------------------------------ conversions

Digits == <<"0", "1", "2", "3", "4", "5", "6", "7", "8", "9">>

\* strconv.Itoa on a non-negative int.
RECURSIVE Itoa(_)
Itoa(n) == IF n < 10 THEN Digits[n + 1] ELSE Itoa(n \div 10) \o Digits[(n % 10) + 1]

\* json.NewDecoder(r.Body).Decode(&taskReq): err is set when the body is not
\* a JSON object or "expression" is not a string; a missing field keeps
\* its zero value.
DecodeTaskRequest(j) ==
  IF j.t # "obj" \/ BadField(j, "expression", "str")
  THEN [err |-> TRUE, val |-> ZeroTaskRequest]
  ELSE [err |-> FALSE,
        val |-> [Expression |-> IF HasField(j, "expression", "str")
                                THEN j.f["expression"].s ELSE ""]]

\* The Task the decoder fills from a JSON object: a field the object lacks
\* (or that does not fit) keeps its zero value.
TaskOfObject(j) ==
  [ID |-> IF HasField(j, "id", "num") THEN j.f["id"].n ELSE 0,
   Expression |-> IF HasField(j, "expression", "str") THEN j.f["expression"].s ELSE "",
   Status |-> IF HasField(j, "status", "str") THEN j.f["status"].s ELSE "",
   Result |-> IF HasField(j, "result", "num") THEN j.f["result"].n ELSE 0,
   StartTime |-> IF HasField(j, "start_time", "time") THEN j.f["start_time"].n ELSE 0]

\* A decoder that reports no error, whatever the body.
DecodeTask_NoError(j) == [err |-> FALSE, val |-> TaskOfObject(j)]

\* json.NewDecoder(r.Body).Decode(&task) into a Task.
DecodeTask(j) ==
  IF \/ j.t # "obj"
     \/ BadField(j, "id", "num")
     \/ BadField(j, "expression", "str")
     \/ BadField(j, "status", "str")
     \/ BadField(j, "result", "num")
     \/ BadField(j, "start_time", "time")
  THEN [err |-> TRUE, val |-> ZeroTask]
  ELSE [err |-> FALSE, val |-> TaskOfObject(j)]

\* json.NewEncoder(w).Encode(task): result carries omitempty and is left
\* out when 0; start_time is a struct, which omitempty never leaves out.
EncodeTask(task) ==
  LET base == [id |-> JNum(task.ID), expression |-> JStr(task.Expression),
               status |-> JStr(task.Status), start_time |-> JTime(task.StartTime)]
  IN  JObj(IF task.Result = 0
           THEN base
           ELSE [k \in DOMAIN base \cup {"result"} |->
                   IF k = "result" THEN JNum(task.Result) ELSE base[k]])

EncodeTaskResponse(id) == JObj([id |-> JNum(id)])

EncodeOperations(ops) ==
  JArr([i \in 1..Len(ops) |->
          JObj([operator |-> JStr(ops[i].Operator), duration |-> JNum(ops[i].Duration)])])

\* ----------------------------------------------------------------- inputs

Exprs == {"1+1", "2*3"}

\* Bodies no handler can decode: text that is not JSON, an object whose
\* expression is a number, an object whose id is a string.
BadAddBodies == {JInvalid, JObj([expression |-> JNum(5)])}

BadReportBodies == {JInvalid, JObj([id |-> JStr("1")])}

\* Bodies posted to /addTask.
AddBodies == {JObj([expression |-> JStr(e)]) : e \in Exprs} \cup BadAddBodies

\* The ids a client names: the first two tasks and one no task has.
ClientIDs == {1, 2, 9999}

\* Bodies posted to /handleResult: a worker's report of a finished task (the
\* record it was handed, completed, with a result), and a record that names
\* the task pending again.
ReportBodies ==
  {JObj([id |-> JNum(i), expression |-> JStr("1+1"), status |-> JStr("completed"),
         result |-> JNum(2), start_time |-> JTime(0)]) : i \in ClientIDs}
    \cup {JObj([id |-> JNum(i), expression |-> JStr("1+1"), status |-> JStr("pending")])
            : i \in ClientIDs}
    \cup BadReportBodies

\* The id parameter of /getTaskStatus.
QueryIDs == {Itoa(i) : i \in ClientIDs}

\* ------------------------------------------------------------------ state

VARIABLES
  tasks,          \* the task list
  taskIDCounter,  \* the id counter
  tasksMutex,     \* the goroutine holding tasksMutex, "" when it is free
  operations,     \* the operation catalog
  now,            \* the wall clock time.Now() reads
  pc,             \* where each goroutine is in its handler
  body,           \* r.Body (for getTaskStatus: nothing)
  taskReq,        \* addTask's taskReq
  task,           \* handleResult's task
  taskID,         \* getTaskStatus's taskID
  callTime,       \* the clock when the goroutine's claim request arrived
  resp,           \* what the goroutine has written to w
  claimed,        \* history: the ids successful claims have returned
  createdIDs,     \* history: the ids addTask has returned, in lock order
  epoch,          \* history: the claims made since one task alone was pending
  fresh,          \* history: <<id, expression>> of the creates no claim or
                  \*   report has touched since
  drained         \* history: a claim found nothing pending (stage 1), one task
                  \*   was created since (stage 2, with its id), and the next
                  \*   claim was answered (stage 3, with the id it returned)

vars == << tasks, taskIDCounter, tasksMutex, operations, now, pc, body, taskReq,
           task, taskID, callTime, resp, claimed, createdIDs, epoch, fresh, drained >>

NoHolder == ""

NoResp == [code |-> 0, body |-> NoBody]

NoEpoch == [target |-> 0, log |-> <<>>]

NotDrained == [stage |-> 0, id |-> 0]

\* -------------------------------------------------------- the loops' scans

\* The positions of the pending tasks.
PendingAt(ts) == {i \in 1..Len(ts) : ts[i].Status = "pending"}

\* The scan of getTaskForExecution that finds the last pending task.
FirstPending_Last(ts, i) ==
  IF PendingAt(ts) = {} THEN 0
  ELSE CHOOSE k \in PendingAt(ts) : \A j \in PendingAt(ts) : j <= k

\* for i, task := range tasks { if task.Status == "pending" ... }: the first
\* position from i on whose task is pending, 0 when the loop runs out.
RECURSIVE FirstPending(_, _)
FirstPending(ts, i) ==
  IF i > Len(ts) THEN 0
  ELSE IF ts[i].Status = "pending" THEN i
  ELSE FirstPending(ts, i + 1)

\* for i, t := range tasks { if t.ID == task.ID ... }: the first position
\* from i on whose task has the id, 0 when the loop runs out.
RECURSIVE FindByID(_, _, _)
FindByID(ts, id, i) ==
  IF i > Len(ts) THEN 0
  ELSE IF ts[i].ID = id THEN i
  ELSE FindByID(ts, id, i + 1)

\* for _, task := range tasks { if strconv.Itoa(task.ID) == taskID ... }.
RECURSIVE FindByQuery(_, _, _)
FindByQuery(ts, q, i) ==
  IF i > Len(ts) THEN 0
  ELSE IF Itoa(ts[i].ID) = q THEN i
  ELSE FindByQuery(ts, q, i + 1)

\* ------------------------------------------------- the handlers' list code

\* A counter that is read without being incremented.
NextID_NoIncrement(counter) == counter

\* taskIDCounter++
NextID(counter) == counter + 1

\* A new task whose expression is left at its zero value.
NewTask_NoExpression(id, req) ==
  [ID |-> id, Expression |-> "", Status |-> "pending", Result |-> 0, StartTime |-> 0]

\* A new task whose status is left at its zero value.
NewTask_NoStatus(id, req) ==
  [ID |-> id, Expression |-> req.Expression, Status |-> "", Result |-> 0,
   StartTime |-> 0]

\* newTask := Task{ID: taskIDCounter, Expression: taskReq.Expression,
\* Status: "pending"}
NewTask(id, req) ==
  [ID |-> id, Expression |-> req.Expression, Status |-> "pending",
   Result |-> 0, StartTime |-> 0]

\* A claim that sets the start time and leaves the status as it was.
ClaimUpdate_NoStatus(ts, i, t) == [ts EXCEPT ![i].StartTime = t]

\* A claim that marks the task and leaves its start time unset.
ClaimUpdate_NoStartTime(ts, i, t) == [ts EXCEPT ![i].Status = "in_progress"]

\* tasks[i].Status = "in_progress"; tasks[i].StartTime = time.Now()
ClaimUpdate(ts, i, t) ==
  [ts EXCEPT ![i].Status = "in_progress", ![i].StartTime = t]

\* json.NewEncoder(w).Encode(task): task is the range loop's copy of
\* tasks[i], taken before the two assignments to tasks[i].
ClaimResponse(ts, i) == [code |-> StatusOK, body |-> EncodeTask(ts[i])]

\* A report that stores the record of an id the list lacks.
ReplaceByID_Upsert(ts, t) ==
  IF FindByID(ts, t.ID, 1) = 0 THEN Append(ts, t)
  ELSE [ts EXCEPT ![FindByID(ts, t.ID, 1)] = t]

\* A report that copies the status and the result only.
ReplaceByID_ResultOnly(ts, t) ==
  IF FindByID(ts, t.ID, 1) = 0 THEN ts
  ELSE [ts EXCEPT ![FindByID(ts, t.ID, 1)].Status = t.Status,
                  ![FindByID(ts, t.ID, 1)].Result = t.Result]

\* A report that writes the record to the first slot of the list.
ReplaceByID_FirstSlot(ts, t) ==
  IF FindByID(ts, t.ID, 1) = 0 THEN ts ELSE [ts EXCEPT ![1] = t]

\* for i, t := range tasks { if t.ID == task.ID { tasks[i] = task; break } }
ReplaceByID(ts, t) ==
  IF FindByID(ts, t.ID, 1) = 0 THEN ts
  ELSE [ts EXCEPT ![FindByID(ts, t.ID, 1)] = t]

\* The response of getTaskStatus on a list.
StatusResponse(ts, q) ==
  IF FindByQuery(ts, q, 1) = 0
  THEN [code |-> StatusNotFound, body |-> JStr("404 page not found")]
  ELSE [code |-> StatusOK, body |-> EncodeTask(ts[FindByQuery(ts, q, 1)])]

\* ---------------------------------------------------------------- history

\* The task id a response carries, 0 when it carries none.
ResponseID(r) ==
  IF r.code = StatusOK /\ r.body.t = "obj" /\ HasField(r.body, "id", "num")
  THEN r.body.f["id"].n ELSE 0

\* The list changed by addTask or handleResult: a new epoch starts when
\* exactly one task is pending.
EpochAfterWrite(ts) ==
  IF Cardinality(PendingAt(ts)) = 1
  THEN [target |-> ts[CHOOSE i \in PendingAt(ts) : TRUE].ID, log |-> <<>>]
  ELSE NoEpoch

\* A claim answered with id (0: NotFound), leaving the list ts. At most one
\* claim per goroutine is kept.
EpochAfterClaim(e, id, ts) ==
  IF e.target # 0
  THEN IF Len(e.log) < Cardinality(Procs)
       THEN [e EXCEPT !.log = Append(e.log, id)] ELSE e
  ELSE EpochAfterWrite(ts)

\* ------------------------------------------------------------------- Init

Init ==
  /\ tasks = <<>>
  /\ taskIDCounter = 0
  /\ tasksMutex = NoHolder
  /\ operations = OperationsCatalog
  /\ now = 1
  /\ pc = [p \in Procs |-> "idle"]
  /\ body = [p \in Procs |-> NoBody]
  /\ taskReq = [p \in Procs |-> ZeroTaskRequest]
  /\ task = [p \in Procs |-> ZeroTask]
  /\ taskID = [p \in Procs |-> ""]
  /\ callTime = [p \in Procs |-> 0]
  /\ resp = [p \in Procs |-> NoResp]
  /\ claimed = {}
  /\ createdIDs = <<>>
  /\ epoch = NoEpoch
  /\ fresh = {}
  /\ drained = NotDrained

\* The clock advances.
Tick ==
  /\ now < MaxTime
  /\ now' = now + 1
  /\ UNCHANGED << tasks, taskIDCounter, tasksMutex, operations, pc, body, taskReq,
                  task, taskID, callTime, resp, claimed, createdIDs, epoch, fresh, drained >>

\* A request with body b arrives for goroutine p.
Arrive(p, b) ==
  /\ pc[p] = "idle"
  /\ body' = [body EXCEPT ![p] = b]

\* The addTask goroutines that are past decoding and have appended nothing.
AddsWaiting == {q \in Procs : pc[q] = "addTask_lock"}

\* ---------------------------------------------------------------- addTask

\* Lines 49-54: decode the body; on an error answer 400 and return.
addTask_Decode(p) ==
  \E b \in AddBodies :
    /\ Arrive(p, b)
    /\ Len(tasks) + Cardinality(AddsWaiting) < MaxTasks
    /\ LET d == DecodeTaskRequest(b) IN
         /\ taskReq' = [taskReq EXCEPT ![p] = d.val]
         /\ IF d.err
            THEN /\ pc' = [pc EXCEPT ![p] = "addTask_bad"]
                 /\ resp' = [resp EXCEPT ![p] =
                      [code |-> StatusBadRequest, body |-> JStr("Bad request")]]
            ELSE /\ pc' = [pc EXCEPT ![p] = "addTask_lock"]
                 /\ resp' = resp
    /\ UNCHANGED << callTime, tasks, taskIDCounter, tasksMutex, operations, now, task, taskID,
                    claimed, createdIDs, epoch, fresh, drained >>

\* Lines 57-70: take the mutex, count, append, write the id.
addTask_Locked(p) ==
  /\ pc[p] = "addTask_lock"
  /\ tasksMutex = NoHolder
  /\ tasksMutex' = p
  /\ taskIDCounter' = NextID(taskIDCounter)
  /\ tasks' = Append(tasks, NewTask(taskIDCounter', taskReq[p]))
  /\ resp' = [resp EXCEPT ![p] =
       [code |-> StatusOK, body |-> EncodeTaskResponse(taskIDCounter')]]
  /\ pc' = [pc EXCEPT ![p] = "addTask_ret"]
  /\ createdIDs' = Append(createdIDs, ResponseID(resp'[p]))
  /\ epoch' = EpochAfterWrite(tasks')
  /\ fresh' = fresh \cup {<< ResponseID(resp'[p]), body[p].f["expression"].s >>}
  /\ drained' = IF drained.stage = 1
                THEN [stage |-> 2, id |-> ResponseID(resp'[p])] ELSE NotDrained
  /\ UNCHANGED << operations, now, body, taskReq, task, taskID, callTime, claimed >>

\* ---------------------------------------------------------- getTaskStatus

\* Line 75: read the id parameter.
getTaskStatus_Query(p) ==
  \E q \in QueryIDs :
    /\ Arrive(p, NoBody)
    /\ taskID' = [taskID EXCEPT ![p] = q]
    /\ pc' = [pc EXCEPT ![p] = "getTaskStatus_lock"]
    /\ UNCHANGED << callTime, tasks, taskIDCounter, tasksMutex, operations, now, taskReq, task,
                    resp, claimed, createdIDs, epoch, fresh, drained >>

\* A lookup that reads the list without taking the mutex.
getTaskStatus_Unlocked(p) ==
  /\ pc[p] = "getTaskStatus_lock"
  /\ resp' = [resp EXCEPT ![p] = StatusResponse(tasks, taskID[p])]
  /\ pc' = [pc EXCEPT ![p] = "getTaskStatus_ret"]
  /\ UNCHANGED << tasks, taskIDCounter, tasksMutex, operations, now, body, taskReq,
                  task, taskID, callTime, claimed, createdIDs, epoch, fresh, drained >>

\* Lines 77-87: take the mutex, look the id up, write the task or 404.
getTaskStatus_Locked(p) ==
  /\ pc[p] = "getTaskStatus_lock"
  /\ tasksMutex = NoHolder
  /\ tasksMutex' = p
  /\ resp' = [resp EXCEPT ![p] = StatusResponse(tasks, taskID[p])]
  /\ pc' = [pc EXCEPT ![p] = "getTaskStatus_ret"]
  /\ UNCHANGED << tasks, taskIDCounter, operations, now, body, taskReq, task, taskID,
                  callTime, claimed, createdIDs, epoch, fresh, drained >>

\* ---------------------------------------------------------- getOperations

\* Lines 92-93: write the catalog; the mutex is not taken.
getOperations(p) ==
  /\ Arrive(p, NoBody)
  /\ resp' = [resp EXCEPT ![p] =
       [code |-> StatusOK, body |-> EncodeOperations(operations)]]
  /\ pc' = [pc EXCEPT ![p] = "getOperations_ret"]
  /\ UNCHANGED << callTime, tasks, taskIDCounter, tasksMutex, operations, now, taskReq, task,
                  taskID, claimed, createdIDs, epoch, fresh, drained >>

\* ---------------------------------------------------- getTaskForExecution

\* The request arrives; the handler reads nothing from it.
getTaskForExecution_Call(p) ==
  /\ Arrive(p, NoBody)
  /\ callTime' = [callTime EXCEPT ![p] = now]
  /\ pc' = [pc EXCEPT ![p] = "getTaskForExecution_lock"]
  /\ UNCHANGED << tasks, taskIDCounter, tasksMutex, operations, now, taskReq, task,
                  taskID, resp, claimed, createdIDs, epoch, fresh, drained >>

\* Lines 100-112: take the mutex, mark the first pending task and write the
\* loop's copy of it, or write 404.
getTaskForExecution_Locked(p) ==
  /\ pc[p] = "getTaskForExecution_lock"
  /\ tasksMutex = NoHolder
  /\ tasksMutex' = p
  /\ LET i == FirstPending(tasks, 1) IN
       IF i = 0
       THEN /\ tasks' = tasks
            /\ resp' = [resp EXCEPT ![p] =
                 [code |-> StatusNotFound, body |-> JStr("404 page not found")]]
            /\ claimed' = claimed
            /\ epoch' = EpochAfterClaim(epoch, ResponseID(resp'[p]), tasks')
            /\ fresh' = fresh
            /\ drained' = [stage |-> 1, id |-> 0]
       ELSE /\ tasks' = ClaimUpdate(tasks, i, now)
            /\ resp' = [resp EXCEPT ![p] = ClaimResponse(tasks, i)]
            /\ claimed' = claimed \cup {ResponseID(resp'[p])}
            /\ epoch' = EpochAfterClaim(epoch, ResponseID(resp'[p]), tasks')
            /\ fresh' = {c \in fresh : c[1] # ResponseID(resp'[p])}
            /\ drained' = IF drained.stage = 2
                          THEN [stage |-> 3, id |-> ResponseID(resp'[p])]
                          ELSE NotDrained
  /\ pc' = [pc EXCEPT ![p] = "getTaskForExecution_ret"]
  /\ UNCHANGED << taskIDCounter, operations, now, body, taskReq, task, taskID,
                  callTime, createdIDs >>

\* ----------------------------------------------------------- handleResult

\* Lines 117-122: decode the body; on an error answer 400 and return.
handleResult_Decode(p) ==
  \E b \in ReportBodies :
    /\ Arrive(p, b)
    /\ LET d == DecodeTask(b) IN
         /\ task' = [task EXCEPT ![p] = d.val]
         /\ IF d.err
            THEN /\ pc' = [pc EXCEPT ![p] = "handleResult_bad"]
                 /\ resp' = [resp EXCEPT ![p] =
                      [code |-> StatusBadRequest, body |-> JStr("Bad request")]]
            ELSE /\ pc' = [pc EXCEPT ![p] = "handleResult_lock"]
                 /\ resp' = resp
    /\ UNCHANGED << callTime, tasks, taskIDCounter, tasksMutex, operations, now, taskReq,
                    taskID, claimed, createdIDs, epoch, fresh, drained >>

\* Lines 124-133: take the mutex, overwrite the task with the same id, if
\* any, and answer 204.
handleResult_Locked(p) ==
  /\ pc[p] = "handleResult_lock"
  /\ tasksMutex = NoHolder
  /\ tasksMutex' = p
  /\ tasks' = ReplaceByID(tasks, task[p])
  /\ resp' = [resp EXCEPT ![p] = [code |-> StatusNoContent, body |-> NoBody]]
  /\ pc' = [pc EXCEPT ![p] = "handleResult_ret"]
  /\ epoch' = EpochAfterWrite(tasks')
  /\ fresh' = {c \in fresh : c[1] # task[p].ID}
  /\ drained' = NotDrained
  /\ UNCHANGED << taskIDCounter, operations, now, body, taskReq, task, taskID,
                  callTime, claimed, createdIDs >>

\* ----------------------------------------------------------------- return

Returning ==
  {"addTask_bad", "addTask_ret", "getTaskStatus_ret", "getOperations_ret",
   "getTaskForExecution_ret", "handleResult_bad", "handleResult_ret"}

\* The handler returns: the deferred tasksMutex.Unlock() runs if the mutex
\* was taken, and the goroutine's frame is gone.
Return(p) ==
  /\ pc[p] \in Returning
  /\ tasksMutex' = IF tasksMutex = p THEN NoHolder ELSE tasksMutex
  /\ pc' = [pc EXCEPT ![p] = "idle"]
  /\ body' = [body EXCEPT ![p] = NoBody]
  /\ taskReq' = [taskReq EXCEPT ![p] = ZeroTaskRequest]
  /\ task' = [task EXCEPT ![p] = ZeroTask]
  /\ taskID' = [taskID EXCEPT ![p] = ""]
  /\ callTime' = [callTime EXCEPT ![p] = 0]
  /\ resp' = [resp EXCEPT ![p] = NoResp]
  /\ UNCHANGED << tasks, taskIDCounter, operations, now, claimed, createdIDs, epoch, fresh, drained >>

Next ==
  \/ Tick
  \/ \E p \in Procs : addTask_Decode(p)
  \/ \E p \in Procs : addTask_Locked(p)
  \/ \E p \in Procs : getTaskStatus_Query(p)
  \/ \E p \in Procs : getTaskStatus_Locked(p)
  \/ \E p \in Procs : getOperations(p)
  \/ \E p \in Procs : getTaskForExecution_Call(p)
  \/ \E p \in Procs : getTaskForExecution_Locked(p)
  \/ \E p \in Procs : handleResult_Decode(p)
  \/ \E p \in Procs : handleResult_Locked(p)
  \/ \E p \in Procs : Return(p)

Spec == Init /\ [][Next]_vars

\* ================================================================= claims

\* Goroutine p's claim ran its critical section in this step.
ClaimStep(p) ==
  pc[p] = "getTaskForExecution_lock" /\ pc'[p] = "getTaskForExecution_ret"

\* Goroutine p has claimed a task and is about to return it.
ClaimReturns(p) == pc[p] = "getTaskForExecution_ret" /\ resp[p].code = StatusOK

\* C1: no task id is returned by two successful claims, whatever records
\* handleResult is sent in between: a claim never returns an id an earlier
\* claim returned.
C1_AtMostOneClaimPerTask ==
  [][\A p \in Procs :
       ClaimStep(p) /\ resp'[p].code = StatusOK => ResponseID(resp'[p]) \notin claimed]_vars

\* C2: of the claims made while one task alone was pending and neither
\* addTask nor handleResult ran, the first receives that task and every
\* other one receives NotFound.
C2_OnePendingOneWinner ==
  (epoch.target # 0 /\ Len(epoch.log) >= 1) =>
    /\ epoch.log[1] = epoch.target
    /\ \A i \in 2..Len(epoch.log) : epoch.log[i] = 0

\* Two claims were made against the one pending task, and the second is
\* about to return NotFound.
C2_Witness ==
  /\ epoch.target # 0
  /\ Len(epoch.log) = 2
  /\ \E p \in Procs :
       pc[p] = "getTaskForExecution_ret" /\ resp[p].code = StatusNotFound

\* C3: a successful claim returns the record as stored right after the
\* claim, with status in_progress and the start time set.
C3_ClaimReturnsUpdatedTask ==
  \A p \in Procs :
    ClaimReturns(p) =>
      LET i == FindByID(tasks, ResponseID(resp[p]), 1) IN
        /\ i # 0
        /\ resp[p].body = EncodeTask(tasks[i])
        /\ resp[p].body.f["status"].s = "in_progress"
        /\ resp[p].body.f["start_time"].n # 0

\* C4: the ids addTask returns are strictly increasing in the order in which
\* the creates took the mutex (so pairwise distinct), and the id a create
\* returns is the id of the task it appended.
C4_CreateIDsIncrease ==
  /\ \A i, j \in 1..Len(createdIDs) : i < j => createdIDs[i] < createdIDs[j]
  /\ \A p \in Procs :
       pc[p] = "addTask_ret" =>
         /\ Len(tasks) > 0
         /\ tasks[Len(tasks)].ID = ResponseID(resp[p])
         /\ tasks[Len(tasks)].Expression = taskReq[p].Expression
         /\ createdIDs[Len(createdIDs)] = ResponseID(resp[p])

\* A second create is about to return its id.
C4_Witness ==
  Len(createdIDs) >= 2 /\ \E p \in Procs : pc[p] = "addTask_ret"

\* pending < in_progress < completed; any other tag ranks below them.
StatusRank(st) ==
  CASE st = "pending" -> 1
    [] st = "in_progress" -> 2
    [] st = "completed" -> 3
    [] OTHER -> 0

\* C5: every task is created pending and no stored task's status ever moves
\* backwards.
C5_StatusOnlyAdvances ==
  [][/\ \A i \in 1..Len(tasks) :
          i <= Len(tasks') /\ StatusRank(tasks'[i].Status) >= StatusRank(tasks[i].Status)
     /\ \A i \in (Len(tasks) + 1)..Len(tasks') : tasks'[i].Status = "pending"]_vars

\* C6: a task's start time is zero until its first claim, is set at the
\* pending -> in_progress transition and by nothing else, and once set never
\* changes.
C6_StartTimeSetOnce ==
  [][/\ \A i \in (Len(tasks) + 1)..Len(tasks') : tasks'[i].StartTime = 0
     /\ \A i \in 1..Len(tasks) :
          /\ i <= Len(tasks')
          /\ tasks[i].StartTime # 0 => tasks'[i].StartTime = tasks[i].StartTime
          /\ (tasks[i].StartTime = 0 /\ tasks'[i].StartTime # 0) =>
               (tasks[i].Status = "pending" /\ tasks'[i].Status = "in_progress")]_vars

\* C7: a claim made while some task is pending selects the pending task at
\* the lowest position: it returns that task's id, marks that task and
\* leaves every other task as it was.
C7_FirstComeFirstServed ==
  [][\A p \in Procs :
       ClaimStep(p) /\ PendingAt(tasks) # {} =>
         LET k == CHOOSE i \in PendingAt(tasks) : \A j \in PendingAt(tasks) : i <= j IN
           /\ resp'[p].code = StatusOK
           /\ ResponseID(resp'[p]) = tasks[k].ID
           /\ Len(tasks') = Len(tasks)
           /\ tasks'[k].Status = "in_progress"
           /\ \A j \in 1..Len(tasks) : j # k => tasks'[j] = tasks[j]]_vars

\* A claim is about to return a task while a later task is still pending.
C7_Witness ==
  \E p \in Procs :
    /\ ClaimReturns(p)
    /\ \E j \in PendingAt(tasks) : FindByID(tasks, ResponseID(resp[p]), 1) < j

\* Goroutine p's report ran its critical section in this step.
ReportStep(p) == pc[p] = "handleResult_lock" /\ pc'[p] = "handleResult_ret"

\* C8: a report whose decoded id no stored task has leaves the task list and
\* the id counter as they were and is answered 204.
C8_UnknownIDReportIsNoOp ==
  [][\A p \in Procs :
       (ReportStep(p) /\ \A i \in 1..Len(tasks) : tasks[i].ID # task[p].ID) =>
         /\ tasks' = tasks
         /\ taskIDCounter' = taskIDCounter
         /\ resp'[p].code = StatusNoContent]_vars

\* A report of an id no task has was absorbed by a list that holds tasks.
C8_Witness ==
  \E p \in Procs :
    /\ pc[p] = "handleResult_ret"
    /\ Len(tasks) >= 1
    /\ \A i \in 1..Len(tasks) : tasks[i].ID # task[p].ID
    /\ resp[p].code = StatusNoContent

\* A body that neither Decode call accepts.
Undecodable(b) == b \in BadAddBodies \cup BadReportBodies

\* C9: a create or a report whose body cannot be decoded is answered 400,
\* never takes the mutex, and no step of its handler changes the task list
\* or the id counter.
C9_BadRequestMutatesNothing ==
  [][\A p \in Procs :
       /\ Undecodable(body'[p]) =>
            /\ pc'[p] \in {"addTask_bad", "handleResult_bad"}
            /\ resp'[p].code = StatusBadRequest
            /\ tasksMutex' # p
       /\ (pc'[p] # pc[p] /\ (Undecodable(body[p]) \/ Undecodable(body'[p]))) =>
            (tasks' = tasks /\ taskIDCounter' = taskIDCounter)]_vars

\* A create with an undecodable body has been answered 400 while the
\* registry holds a task and the counter stands at its id.
C9_Witness ==
  \E p \in Procs :
    /\ pc[p] = "addTask_bad"
    /\ Undecodable(body[p])
    /\ resp[p].code = StatusBadRequest
    /\ Len(tasks) = 1 /\ taskIDCounter = 1

\* C10: when a claim returns task T, getTaskStatus of T.id answers with a
\* start time that is not zero and not before the time the claim request
\* arrived.
C10_ClaimSetsStartTime ==
  \A p \in Procs :
    ClaimReturns(p) =>
      LET r == StatusResponse(tasks, Itoa(ResponseID(resp[p]))) IN
        /\ r.code = StatusOK
        /\ r.body.f["start_time"].n # 0
        /\ r.body.f["start_time"].n >= callTime[p]

\* A claim that arrived at time 1 and took the mutex at time 2 is about to
\* return.
C10_Witness ==
  \E p \in Procs :
    /\ ClaimReturns(p)
    /\ callTime[p] = 1
    /\ StatusResponse(tasks, Itoa(ResponseID(resp[p]))).body.f["start_time"].n = 2

\* Goroutine p has looked a task up and is about to return.
StatusReturns(p) == pc[p] = "getTaskStatus_ret"

\* C11: getTaskStatus of an id that addTask returned for expression e, with
\* no claim and no report of that id since, answers with that id, expression
\* e, status pending, no result member and the zero (unset) start time.
C11_CreateThenStatus ==
  \A p \in Procs : \A c \in fresh :
    (StatusReturns(p) /\ taskID[p] = Itoa(c[1])) =>
      /\ resp[p].code = StatusOK
      /\ resp[p].body.t = "obj"
      /\ DOMAIN resp[p].body.f = {"id", "expression", "status", "start_time"}
      /\ resp[p].body.f["id"] = JNum(c[1])
      /\ resp[p].body.f["expression"] = JStr(c[2])
      /\ resp[p].body.f["status"] = JStr("pending")
      /\ resp[p].body.f["start_time"] = JTime(0)

\* The second task, created for "2*3" and untouched since, has been looked
\* up.
C11_Witness ==
  \E p \in Procs :
    /\ StatusReturns(p)
    /\ taskID[p] = "2"
    /\ << 2, "2*3" >> \in fresh
    /\ resp[p].code = StatusOK

\* C12: a claim made while no task is pending is answered NotFound and
\* changes neither the task list nor the id counter; when one task is created
\* after it and nothing else writes the list, the next claim is answered with
\* exactly that task.
C12_EmptyThenCreateThenClaim ==
  [][\A p \in Procs :
       ClaimStep(p) =>
         /\ PendingAt(tasks) = {} =>
              /\ resp'[p].code = StatusNotFound
              /\ tasks' = tasks
              /\ taskIDCounter' = taskIDCounter
         /\ drained.stage = 2 =>
              /\ resp'[p].code = StatusOK
              /\ ResponseID(resp'[p]) = drained.id
              /\ resp'[p].body.f["expression"].s = tasks[Len(tasks)].Expression
              /\ tasks[Len(tasks)].ID = drained.id
              /\ tasks'[Len(tasks)].Status = "in_progress"]_vars

\* After a claim that found nothing in a list of one task and the create of
\* a second task, a claim is about to return that second task.
C12_Witness ==
  \E p \in Procs :
    /\ ClaimReturns(p)
    /\ drained = [stage |-> 3, id |-> 2]
    /\ ResponseID(resp[p]) = 2

\* C13: a report whose id a stored task has replaces that task's record, at
\* its position, with the reported record: getTaskStatus of the id then
\* answers with exactly the reported record, the list keeps its length, and
\* every other task and the id counter are as before.
C13_ReportReplacesInPlace ==
  [][\A p \in Procs : \A i \in 1..Len(tasks) :
       (ReportStep(p) /\ tasks[i].ID = task[p].ID) =>
         /\ Len(tasks') = Len(tasks)
         /\ tasks'[i] = TaskOfObject(body[p])
         /\ \A j \in 1..Len(tasks) : j # i => tasks'[j] = tasks[j]
         /\ taskIDCounter' = taskIDCounter
         /\ StatusResponse(tasks', Itoa(task[p].ID)).code = StatusOK
         /\ TaskOfObject(StatusResponse(tasks', Itoa(task[p].ID)).body)
              = TaskOfObject(body[p])]_vars

\* A report has replaced the first of two tasks, whose expression differed
\* from the reported one.
C13_Witness ==
  \E p \in Procs :
    /\ pc[p] = "handleResult_ret"
    /\ Len(tasks) = 2
    /\ task[p].ID = 1
    /\ tasks[1] = task[p]
    /\ tasks[1].Status = "completed"
    /\ tasks[2].Expression = "2*3"

\* C14: no two stored tasks have the same id.
C14_UniqueIDs ==
  \A i, j \in 1..Len(tasks) : tasks[i].ID = tasks[j].ID => i = j

\* Two tasks are stored and a report has just overwritten the second.
C14_Witness ==
  \E p \in Procs :
    /\ pc[p] = "handleResult_ret"
    /\ Len(tasks) = 2
    /\ task[p].ID = 2
    /\ tasks[2] = task[p]

\* The report goroutine p makes in this step lowers the status of task i.
LoweringReport(p, i) ==
  /\ ReportStep(p)
  /\ tasks[i].ID = task[p].ID
  /\ StatusRank(task[p].Status) < StatusRank(tasks[i].Status)

\* C15: unless a report carries a status lower than the stored one, what
\* getTaskStatus answers for an id never moves backwards from one step to the
\* next: a task found stays found and its status does not decrease in
\* pending < in_progress < completed. (Only a step that changes the task
\* list can change the answer.)
C15_ObservedStatusMonotone ==
  [][(tasks' # tasks /\ \A p \in Procs : \A i \in 1..Len(tasks) : ~LoweringReport(p, i)) =>
       \A q \in QueryIDs :
         LET before == StatusResponse(tasks, q)
             after == StatusResponse(tasks', q)
         IN  before.code = StatusOK =>
               /\ after.code = StatusOK
               /\ StatusRank(after.body.f["status"].s)
                    >= StatusRank(before.body.f["status"].s)]_vars

\* A claimed task has been reported completed while another goroutine waits
\* to look it up.
C15_Witness ==
  \E p, q \in Procs :
    /\ pc[p] = "handleResult_ret"
    /\ task[p].ID \in claimed
    /\ task[p].Status = "completed"
    /\ StatusResponse(tasks, Itoa(task[p].ID)).body.f["status"].s = "completed"
    /\ pc[q] = "getTaskStatus_lock"
    /\ taskID[q] = Itoa(task[p].ID)

\* The four catalog entries as JSON.
CatalogJSON ==
  JArr(<< JObj([operator |-> JStr("+"), duration |-> JNum(2)]),
          JObj([operator |-> JStr("-"), duration |-> JNum(2)]),
          JObj([operator |-> JStr("*"), duration |-> JNum(4)]),
          JObj([operator |-> JStr("/"), duration |-> JNum(4)]) >>)

\* C16: getOperations always answers with (+,2), (-,2), (*,4), (/,4) in that
\* order, and the catalog holds these entries in every state.
C16_CatalogStable ==
  /\ EncodeOperations(operations) = CatalogJSON
  /\ \A p \in Procs :
       pc[p] = "getOperations_ret" =>
         (resp[p].code = StatusOK /\ resp[p].body = CatalogJSON)

\* The catalog has been written while a claimed task and a pending task are
\* stored.
C16_Witness ==
  \E p \in Procs :
    /\ pc[p] = "getOperations_ret"
    /\ resp[p].body = CatalogJSON
    /\ \E i, j \in 1..Len(tasks) :
         tasks[i].Status = "in_progress" /\ tasks[j].Status = "pending"

\* C17: no handler writes its response while it holds the mutex: whoever
\* holds tasksMutex has written nothing to w yet.
C17_NoResponseUnderLock ==
  \A p \in Procs : tasksMutex = p => resp[p] = NoResp

\* Goroutine p is waiting at tasksMutex.Lock().
AtLock(p) ==
  pc[p] \in {"addTask_lock", "getTaskStatus_lock", "getTaskForExecution_lock",
             "handleResult_lock"}

\* Goroutine p has read or written the task list or the counter and has not
\* returned yet.
InCritical(p) ==
  pc[p] \in {"addTask_ret", "getTaskStatus_ret", "getTaskForExecution_ret",
             "handleResult_ret"}

\* C18: a handler reads or writes the task list and the counter only between
\* taking tasksMutex and releasing it, and at most one goroutine is there at
\* a time: the goroutines past their access are exactly the holder of the
\* mutex, an access starts with the mutex free and leaves it held by the
\* goroutine, and nothing but such an access changes the list or the counter.
C18_AccessUnderLock ==
  [][/\ \A p \in Procs : InCritical(p)' => tasksMutex' = p
     /\ Cardinality({p \in Procs : InCritical(p)'}) <= 1
     /\ \A p \in Procs :
          (AtLock(p) /\ InCritical(p)') => (tasksMutex = NoHolder /\ tasksMutex' = p)
     /\ (tasks' # tasks \/ taskIDCounter' # taskIDCounter) =>
          \E p \in Procs : AtLock(p) /\ InCritical(p)' /\ tasksMutex' = p]_vars

\* One goroutine holds the mutex after claiming a task while the other waits
\* at Lock() with a report.
C18_Witness ==
  \E p, q \in Procs :
    /\ ClaimReturns(p)
    /\ tasksMutex = p
    /\ pc[q] = "handleResult_lock"

\* The answer getTaskStatus gives for q on list ts is a task.
Found(ts, q) == FindByQuery(ts, q, 1) # 0

\* C19: the id counter equals the number of stored tasks and the task at
\* position i has id i; the list never shrinks, and an id getTaskStatus
\* finds is found ever after.
C19_IDsArePositions ==
  [][/\ taskIDCounter = Len(tasks) /\ taskIDCounter' = Len(tasks')
     /\ \A i \in 1..Len(tasks) : tasks[i].ID = i
     /\ \A i \in 1..Len(tasks') : tasks'[i].ID = i
     /\ Len(tasks') >= Len(tasks)
     /\ tasks' # tasks => \A q \in QueryIDs : Found(tasks, q) => Found(tasks', q)]_vars

\* The second of two tasks, overwritten by a report, has been looked up and
\* found.
C19_Witness ==
  \E p \in Procs :
    /\ StatusReturns(p)
    /\ taskID[p] = "2"
    /\ resp[p].code = StatusOK
    /\ taskIDCounter = 2
    /\ tasks[2].Status = "completed"

\* The number of pending tasks ahead of position i.
PendingBefore(ts, i) == Cardinality({j \in PendingAt(ts) : j < i})

\* A report sets a task that had left pending back to pending in this step.
RegressingReport ==
  \E p \in Procs : \E j \in 1..Len(tasks) :
    /\ ReportStep(p)
    /\ tasks[j].ID = task[p].ID
    /\ tasks[j].Status # "pending"
    /\ task[p].Status = "pending"

\* Goroutine p's claim is answered with the task at position i in this step.
ClaimOf(p, i) ==
  ClaimStep(p) /\ resp'[p].code = StatusOK /\ ResponseID(resp'[p]) = tasks[i].ID

\* C20: as long as no report sets a task back to pending, a task pending at
\* position i stops being pending only by being claimed, every successful
\* claim of another task takes one of the pending tasks ahead of it, and no
\* step adds a pending task ahead of it: it is claimed after at most i
\* successful claims.
C20_PendingIsClaimedInTurn ==
  [][~RegressingReport =>
       \A i \in 1..Len(tasks) :
         tasks[i].Status = "pending" =>
           /\ i <= Len(tasks')
           /\ tasks'[i].Status # "pending" => \E p \in Procs : ClaimOf(p, i)
           /\ PendingBefore(tasks', i) <= PendingBefore(tasks, i)
           /\ \A p \in Procs :
                (ClaimStep(p) /\ resp'[p].code = StatusOK /\ ~ClaimOf(p, i)) =>
                  PendingBefore(tasks', i) = PendingBefore(tasks, i) - 1]_vars

====
